---- MODULE Spec2Model ----
(***************************************************************************)
(* Session-state layer of the video chat page (src/unnamed/part_000):      *)
(* the React state of the Home component, its handlers, and the requests   *)
(* they leave in flight across an await.                                   *)
(***************************************************************************)
EXTENDS Integers, Sequences, FiniteSets, TLC

(* ------------------------------ bounds --------------------------------- *)
\* longest listing the backend returns, and most sessions the user builds up
MaxSessions == 2
\* longest history a session is allowed to grow to
MaxMessages == 4

(* --------------------------- input domains ----------------------------- *)
Null == "null"
Urls == {"u1", "u2"}
TypedUrls == {"", "u1"}
ListDescriptions == {"d1"}
Descriptions == {"d1"}
TypedTitles == {"", "t1"}
\* texts are sequences of characters, so that trim() is computed
Questions == {<< >>, <<" ">>, <<" ", "q">>}
Responses == {<<"r">>}
ErrorContent == <<"E", "r", "r", "o", "r">>

VARIABLES sessions, activeSessionId, urlInput, titleInput, questionInput,
          loading, fetchVideos, ingestCalls, sendCalls, lastOp,
          \* the state of the older page variant (src/frontend/src/app/page.tsx)
          legacy

\* the state of the session page
pageVars == <<sessions, activeSessionId, urlInput, titleInput, questionInput,
              loading, fetchVideos, ingestCalls, sendCalls, lastOp>>

vars == <<sessions, activeSessionId, urlInput, titleInput, questionInput,
          loading, fetchVideos, ingestCalls, sendCalls, lastOp, legacy>>

(* ----------------------------- helpers --------------------------------- *)
\* JavaScript truthiness of a string-or-null value
Truthy(s) == s # Null /\ s # ""

\* a || b on strings
OrElse(a, b) == IF Truthy(a) THEN a ELSE b

\* `Video ${sessions.length + 1}`
PlaceholderTitle(ss) == "Video " \o ToString(Len(ss) + 1)

IsSpace(c) == c = " "

RECURSIVE TrimStart(_)
TrimStart(s) ==
    IF s # << >> /\ IsSpace(Head(s)) THEN TrimStart(Tail(s)) ELSE s

RECURSIVE TrimEnd(_)
TrimEnd(s) ==
    IF s # << >> /\ IsSpace(s[Len(s)]) THEN TrimEnd(SubSeq(s, 1, Len(s) - 1)) ELSE s

\* no trimming at all
TrimNone(s) == s

\* String.prototype.trim
Trim(s) == TrimEnd(TrimStart(s))

Keys(ss) == {ss[i].uniqueId : i \in 1..Len(ss)}

\* sessions.find(s => s.uniqueId === activeSessionId): index of the first
\* match, 0 when find returns undefined
FindIndex(ss, key) ==
    IF \E i \in 1..Len(ss) : ss[i].uniqueId = key
    THEN CHOOSE i \in 1..Len(ss) :
            /\ ss[i].uniqueId = key
            /\ \A j \in 1..(i - 1) : ss[j].uniqueId # key
    ELSE 0

activeChatIndex == FindIndex(sessions, activeSessionId)

HasActiveChat == activeChatIndex # 0

activeChat == sessions[activeChatIndex]

\* the listing mapped back to front
LoadedSessionsReversed(data) ==
    [i \in 1..Len(data) |->
        [id |-> data[Len(data) + 1 - i].url, uniqueId |-> data[Len(data) + 1 - i].url,
         title |-> data[Len(data) + 1 - i].description, messages |-> << >>]]

\* data.map(v => ({id: v.url, uniqueId: v.url, title: v.description, messages: []}))
LoadedSessions(data) ==
    [i \in 1..Len(data) |->
        [id |-> data[i].url, uniqueId |-> data[i].url,
         title |-> data[i].description, messages |-> << >>]]

\* an append that creates the session when no session has the key
addMessageOrCreate(prev, uniqueId, msg) ==
    IF \E i \in 1..Len(prev) : prev[i].uniqueId = uniqueId
    THEN [i \in 1..Len(prev) |->
            IF prev[i].uniqueId = uniqueId
            THEN [prev[i] EXCEPT !.messages = Append(@, msg)]
            ELSE prev[i]]
    ELSE Append(prev, [id |-> uniqueId, uniqueId |-> uniqueId,
                       title |-> uniqueId, messages |-> <<msg>>])

\* an append that falls back to the first session when no session has the key
addMessageOrFirst(prev, uniqueId, msg) ==
    [i \in 1..Len(prev) |->
        IF \/ prev[i].uniqueId = uniqueId
           \/ (i = 1 /\ \A j \in 1..Len(prev) : prev[j].uniqueId # uniqueId)
        THEN [prev[i] EXCEPT !.messages = Append(@, msg)]
        ELSE prev[i]]

\* prev.map(s => s.uniqueId === uniqueId ? {...s, messages: [...s.messages, msg]} : s)
addMessageToSession(prev, uniqueId, msg) ==
    [i \in 1..Len(prev) |->
        IF prev[i].uniqueId = uniqueId
        THEN [prev[i] EXCEPT !.messages = Append(@, msg)]
        ELSE prev[i]]

\* prev.filter(s => s.uniqueId !== uniqueId)
FilterOut(prev, uniqueId) ==
    LET Keep(s) == s.uniqueId # uniqueId IN SelectSeq(prev, Keep)

\* the session handleIngest builds from the response
NewSession(call, videoUrl, videoDescription) ==
    [id |-> videoUrl, uniqueId |-> videoUrl,
     title |-> OrElse(videoDescription,
                      OrElse(call.titleInput, PlaceholderTitle(call.sessions))),
     messages |-> << >>]

\* the new session put behind the others
IngestedSessionsLast(call, newSession) == call.sessions \o <<newSession>>

\* [newSession, ...sessions], with the sessions of the render that was
\* current when the handler was called
IngestedSessions(call, newSession) == <<newSession>> \o call.sessions

\* a reply routed by the active pointer of the moment it arrives
ReplyTargetActive(call) == activeSessionId

\* the user message with the question trimmed
UserMessageTrimmed(currentQ) == [role |-> "user", content |-> Trim(currentQ)]

\* { role: 'user', content: currentQ }
UserMessage(currentQ) == [role |-> "user", content |-> currentQ]

\* { role: 'assistant', content: data.response }
AssistantMessage(response) == [role |-> "assistant", content |-> response]

\* a delete that leaves the active pointer alone
ActiveKept(active, uniqueId) == active

\* if (activeSessionId === uniqueId) setActiveSessionId(null)
ActiveAfterDelete(active, uniqueId) == IF active = uniqueId THEN Null ELSE active

\* the key the reply of a query is routed to: activeChat.uniqueId of the
\* closure, fixed at submission
ReplyTarget(call) == call.activeChat.uniqueId

RemoveAt(s, i) == SubSeq(s, 1, i - 1) \o SubSeq(s, i + 1, Len(s))

\* the listings GET /list-videos may answer with
Records == [url : Urls, description : ListDescriptions]

RECURSIVE SeqsUpTo(_, _)
SeqsUpTo(S, n) ==
    IF n = 0 THEN {<< >>}
    ELSE LET shorter == SeqsUpTo(S, n - 1)
         IN shorter \cup {Append(s, x) : s \in shorter, x \in S}

Listings == SeqsUpTo(Records, MaxSessions)

(* ------------------------------- views --------------------------------- *)
\* {!activeSessionId && ...}: the setup card
SetupViewShown == ~Truthy(activeSessionId)

\* {activeSessionId && activeChat && ...}: the chat
ChatViewShown == Truthy(activeSessionId) /\ HasActiveChat

\* a Start Chat button that ignores loading
StartChatIgnoringLoading == SetupViewShown /\ Truthy(urlInput)

\* disabled={loading || !urlInput}
StartChatEnabled == SetupViewShown /\ ~(loading \/ ~Truthy(urlInput))

\* a question input and Send button that ignore loading
SendIgnoringLoading == ChatViewShown

\* disabled={loading} on the question input and the Send button
SendEnabled == ChatViewShown /\ ~loading

(* ------------------------------- state --------------------------------- *)
\* the useState initial values of the older page, and its calls in flight
LegacyHome ==
    [url |-> << >>, loading |-> FALSE, status |-> "", videos |-> << >>,
     activeVideoId |-> Null,
     question |-> << >>, currentMessages |-> << >>,
     processCalls |-> << >>, sendCalls |-> << >>]

Init ==
    /\ legacy = LegacyHome
    /\ sessions = << >>
    /\ activeSessionId = Null
    /\ urlInput = ""
    /\ titleInput = ""
    /\ questionInput = << >>
    /\ loading = FALSE
    /\ fetchVideos = "awaiting"
    /\ ingestCalls = << >>
    /\ sendCalls = << >>
    /\ lastOp = [op |-> "mount", key |-> Null]

(* ---------------------------- hydration -------------------------------- *)
\* the listing resolves with an array
FetchVideosArray(data) ==
    /\ fetchVideos = "awaiting"
    /\ fetchVideos' = "done"
    /\ sessions' = LoadedSessions(data)
    /\ lastOp' = [op |-> "fetchArray", key |-> Null]
    /\ UNCHANGED <<activeSessionId, urlInput, titleInput, questionInput,
                   loading, ingestCalls, sendCalls, legacy>>

\* !res.ok: logged, early return
FetchVideosNotOk ==
    /\ fetchVideos = "awaiting"
    /\ fetchVideos' = "done"
    /\ lastOp' = [op |-> "fetchNotOk", key |-> Null]
    /\ UNCHANGED <<sessions, activeSessionId, urlInput, titleInput, questionInput,
                   loading, ingestCalls, sendCalls, legacy>>

\* the payload is not an array
FetchVideosNotArray ==
    /\ fetchVideos = "awaiting"
    /\ fetchVideos' = "done"
    /\ sessions' = << >>
    /\ lastOp' = [op |-> "fetchNotArray", key |-> Null]
    /\ UNCHANGED <<activeSessionId, urlInput, titleInput, questionInput,
                   loading, ingestCalls, sendCalls, legacy>>

\* fetch or res.json() throws
FetchVideosThrow ==
    /\ fetchVideos = "awaiting"
    /\ fetchVideos' = "done"
    /\ sessions' = << >>
    /\ lastOp' = [op |-> "fetchThrow", key |-> Null]
    /\ UNCHANGED <<activeSessionId, urlInput, titleInput, questionInput,
                   loading, ingestCalls, sendCalls, legacy>>

(* ------------------------------ inputs --------------------------------- *)
\* onChange of the YouTube URL input of the setup card
SetUrlInput(u) ==
    /\ SetupViewShown
    /\ u # urlInput
    /\ urlInput' = u
    /\ lastOp' = [op |-> "view", key |-> Null]
    /\ UNCHANGED <<sessions, activeSessionId, titleInput, questionInput,
                   loading, fetchVideos, ingestCalls, sendCalls, legacy>>

\* onChange of the Chat Name input of the setup card
SetTitleInput(t) ==
    /\ SetupViewShown
    /\ t # titleInput
    /\ titleInput' = t
    /\ lastOp' = [op |-> "view", key |-> Null]
    /\ UNCHANGED <<sessions, activeSessionId, urlInput, questionInput,
                   loading, fetchVideos, ingestCalls, sendCalls, legacy>>

\* onChange of the question input of the chat footer
SetQuestionInput(q) ==
    /\ SendEnabled
    /\ q # questionInput
    /\ questionInput' = q
    /\ lastOp' = [op |-> "view", key |-> Null]
    /\ UNCHANGED <<sessions, activeSessionId, urlInput, titleInput,
                   loading, fetchVideos, ingestCalls, sendCalls, legacy>>

(* ------------------------------ sidebar -------------------------------- *)
\* onClick of a history item
SelectSession(k) ==
    /\ k \in Keys(sessions)
    /\ activeSessionId' = k
    /\ lastOp' = [op |-> "view", key |-> Null]
    /\ UNCHANGED <<sessions, urlInput, titleInput, questionInput,
                   loading, fetchVideos, ingestCalls, sendCalls, legacy>>

\* onClick of "+ New Video Chat"
NewVideoChat ==
    /\ activeSessionId' = Null
    /\ lastOp' = [op |-> "view", key |-> Null]
    /\ UNCHANGED <<sessions, urlInput, titleInput, questionInput,
                   loading, fetchVideos, ingestCalls, sendCalls, legacy>>

\* onClick of the delete button of a history item
handleDelete(uniqueId) ==
    /\ uniqueId \in Keys(sessions)
    /\ sessions' = FilterOut(sessions, uniqueId)
    /\ activeSessionId' = ActiveAfterDelete(activeSessionId, uniqueId)
    /\ lastOp' = [op |-> IF activeSessionId = uniqueId THEN "deleteActive" ELSE "delete",
                  key |-> uniqueId]
    /\ UNCHANGED <<urlInput, titleInput, questionInput,
                   loading, fetchVideos, ingestCalls, sendCalls, legacy>>

(* ------------------------------ ingest --------------------------------- *)
\* onClick of Start Chat, up to the await of the ingest request
handleIngest ==
    /\ StartChatEnabled
    /\ Len(sessions) < MaxSessions
    /\ IF ~Truthy(urlInput)
       THEN /\ lastOp' = [op |-> "ingestRejected", key |-> Null]
            /\ UNCHANGED <<loading, ingestCalls>>
       ELSE /\ loading' = TRUE
            /\ ingestCalls' = Append(ingestCalls,
                    [url |-> urlInput, titleInput |-> titleInput, sessions |-> sessions])
            /\ lastOp' = [op |-> "ingest", key |-> urlInput]
    /\ UNCHANGED <<sessions, activeSessionId, urlInput, titleInput, questionInput,
                   fetchVideos, sendCalls, legacy>>

\* the ingest request resolves with a 2xx response
IngestResolveOk(i, videoUrl, videoDescription) ==
    /\ i \in 1..Len(ingestCalls)
    /\ LET call == ingestCalls[i]
           newSession == NewSession(call, videoUrl, videoDescription)
       IN /\ sessions' = IngestedSessions(call, newSession)
          /\ activeSessionId' = videoUrl
    /\ urlInput' = ""
    /\ titleInput' = ""
    /\ loading' = FALSE
    /\ ingestCalls' = RemoveAt(ingestCalls, i)
    /\ lastOp' = [op |-> "ingestOk", key |-> videoUrl]
    /\ UNCHANGED <<questionInput, fetchVideos, sendCalls, legacy>>

\* a failure handler that also runs the cleanup of the inputs
IngestResolveFailCleanup(i) ==
    /\ i \in 1..Len(ingestCalls)
    /\ urlInput' = ""
    /\ titleInput' = ""
    /\ loading' = FALSE
    /\ ingestCalls' = RemoveAt(ingestCalls, i)
    /\ lastOp' = [op |-> "ingestFail", key |-> ingestCalls[i].url]
    /\ UNCHANGED <<sessions, activeSessionId, questionInput, fetchVideos, sendCalls, legacy>>

\* the request fails or answers with a non-2xx status: alert, then finally
IngestResolveFail(i) ==
    /\ i \in 1..Len(ingestCalls)
    /\ loading' = FALSE
    /\ ingestCalls' = RemoveAt(ingestCalls, i)
    /\ lastOp' = [op |-> "ingestFail", key |-> ingestCalls[i].url]
    /\ UNCHANGED <<sessions, activeSessionId, urlInput, titleInput, questionInput,
                   fetchVideos, sendCalls, legacy>>

(* ------------------------------- query --------------------------------- *)
\* every history the captured key names has room for one more exchange
RoomToSend(key) ==
    \A j \in 1..Len(sessions) :
        sessions[j].uniqueId = key => Len(sessions[j].messages) + 2 <= MaxMessages

\* onClick of Send or Enter in the question input, up to the await of the query
handleSend ==
    /\ SendEnabled
    /\ RoomToSend(activeSessionId)
    /\ IF Trim(questionInput) = << >> \/ ~HasActiveChat
       THEN /\ lastOp' = [op |-> "sendRejected", key |-> activeSessionId]
            /\ UNCHANGED <<sessions, questionInput, loading, sendCalls>>
       ELSE /\ questionInput' = << >>
            /\ sessions' = addMessageToSession(sessions, activeChat.uniqueId,
                                UserMessage(questionInput))
            /\ loading' = TRUE
            /\ sendCalls' = Append(sendCalls,
                    [currentQ |-> questionInput,
                     activeChat |-> [id |-> activeChat.id,
                                     uniqueId |-> activeChat.uniqueId]])
            /\ lastOp' = [op |-> "send", key |-> activeChat.uniqueId]
    /\ UNCHANGED <<activeSessionId, urlInput, titleInput,
                   fetchVideos, ingestCalls, legacy>>

\* the query resolves with a 2xx response
SendResolveOk(i, response) ==
    /\ i \in 1..Len(sendCalls)
    /\ sessions' = addMessageToSession(sessions, ReplyTarget(sendCalls[i]),
                        AssistantMessage(response))
    /\ loading' = FALSE
    /\ sendCalls' = RemoveAt(sendCalls, i)
    /\ lastOp' = [op |-> "sendOk", key |-> sendCalls[i].activeChat.uniqueId]
    /\ UNCHANGED <<activeSessionId, urlInput, titleInput, questionInput,
                   fetchVideos, ingestCalls, legacy>>

\* a failure handler without the finally block: loading stays set
SendResolveFailStaysBusy(i) ==
    /\ i \in 1..Len(sendCalls)
    /\ sessions' = addMessageToSession(sessions, ReplyTarget(sendCalls[i]),
                        AssistantMessage(ErrorContent))
    /\ sendCalls' = RemoveAt(sendCalls, i)
    /\ lastOp' = [op |-> "sendFail", key |-> sendCalls[i].activeChat.uniqueId]
    /\ UNCHANGED <<activeSessionId, urlInput, titleInput, questionInput, loading,
                   fetchVideos, ingestCalls, legacy>>

\* a failure handler that swallows the error without a message
SendResolveFailDropped(i) ==
    /\ i \in 1..Len(sendCalls)
    /\ loading' = FALSE
    /\ sendCalls' = RemoveAt(sendCalls, i)
    /\ lastOp' = [op |-> "sendFail", key |-> sendCalls[i].activeChat.uniqueId]
    /\ UNCHANGED <<sessions, activeSessionId, urlInput, titleInput, questionInput,
                   fetchVideos, ingestCalls, legacy>>

\* the query fails or answers with a non-2xx status
SendResolveFail(i) ==
    /\ i \in 1..Len(sendCalls)
    /\ sessions' = addMessageToSession(sessions, ReplyTarget(sendCalls[i]),
                        AssistantMessage(ErrorContent))
    /\ loading' = FALSE
    /\ sendCalls' = RemoveAt(sendCalls, i)
    /\ lastOp' = [op |-> "sendFail", key |-> sendCalls[i].activeChat.uniqueId]
    /\ UNCHANGED <<activeSessionId, urlInput, titleInput, questionInput,
                   fetchVideos, ingestCalls, legacy>>

Next ==
    \/ \E data \in Listings : FetchVideosArray(data)
    \/ FetchVideosNotOk
    \/ FetchVideosNotArray
    \/ FetchVideosThrow
    \/ \E u \in TypedUrls : SetUrlInput(u)
    \/ \E t \in TypedTitles : SetTitleInput(t)
    \/ \E q \in Questions : SetQuestionInput(q)
    \/ \E k \in Urls : SelectSession(k)
    \/ NewVideoChat
    \/ \E k \in Urls : handleDelete(k)
    \/ handleIngest
    \/ \E i \in 1..Len(ingestCalls), v \in Urls, d \in Descriptions :
            IngestResolveOk(i, v, d)
    \/ \E i \in 1..Len(ingestCalls) : IngestResolveFail(i)
    \/ handleSend
    \/ \E i \in 1..Len(sendCalls), r \in Responses : SendResolveOk(i, r)
    \/ \E i \in 1..Len(sendCalls) : SendResolveFail(i)

Spec == Init /\ [][Next]_vars

(* ----------------------- requests that settle -------------------------- *)
\* a pending query settles
SendSettles ==
    \E i \in 1..Len(sendCalls) :
        \/ \E r \in Responses : SendResolveOk(i, r)
        \/ SendResolveFail(i)

\* the page when every query it issues is answered or fails in the end
SpecLive ==
    /\ Init /\ [][Next]_vars
    /\ WF_vars(SendSettles)

(* ------------- the older page (src/frontend/src/app/page.tsx) ---------- *)
\* urls are sequences of characters, so that split('/') is computed
LegacyUrls == {<< >>, <<"a", "/", "b">>, <<"a", "/">>}
LegacyQuestions == {<< >>, <<" ">>, <<"q">>}
VideoIds == {"v1", "v2"}
LegacyErrorContent == <<"E", "r", "r", "o", "r", ":">>
DefaultTitle == <<"V", "i", "d", "e", "o">>

\* url.split('/').pop(): the characters after the last '/'
RECURSIVE LastSegment(_)
LastSegment(u) ==
    IF u = << >> \/ u[Len(u)] = "/" THEN << >>
    ELSE Append(LastSegment(SubSeq(u, 1, Len(u) - 1)), u[Len(u)])

\* url.split('/').pop() || 'Video'
LegacyTitle(u) == IF LastSegment(u) # << >> THEN LastSegment(u) ELSE DefaultTitle

\* videos.find(v => v.videoId === activeVideoId): index of the first match,
\* 0 when find returns undefined
LegacyFindIndex(vs, videoId) ==
    IF \E i \in 1..Len(vs) : vs[i].videoId = videoId
    THEN CHOOSE i \in 1..Len(vs) :
            /\ vs[i].videoId = videoId
            /\ \A j \in 1..(i - 1) : vs[j].videoId # videoId
    ELSE 0

\* prev.map(v => v.videoId === activeVideoId
\*     ? {...v, messages: [...v.messages, userMessage, aiMessage]} : v)
LegacyStoreExchange(prev, videoId, userMessage, aiMessage) ==
    [i \in 1..Len(prev) |->
        IF prev[i].videoId = videoId
        THEN [prev[i] EXCEPT !.messages = @ \o <<userMessage, aiMessage>>]
        ELSE prev[i]]

\* disabled={loading} on the url input
LegacyUrlInputEnabled == ~legacy.loading

\* disabled={loading || !url.trim()} on the Ingest button
LegacyIngestEnabled == ~(legacy.loading \/ Trim(legacy.url) = << >>)

\* {activeVideoId && <footer>}, disabled={loading} on the question input
LegacyQuestionInputEnabled == Truthy(legacy.activeVideoId) /\ ~legacy.loading

\* every history the send may extend has room for one more exchange
LegacyRoomToSend ==
    /\ Len(legacy.currentMessages) + 2 <= MaxMessages
    /\ \A j \in 1..Len(legacy.videos) :
        Len(legacy.videos[j].messages) + 2 <= MaxMessages

\* onChange of the url input
LegacySetUrl(u) ==
    /\ LegacyUrlInputEnabled
    /\ u # legacy.url
    /\ legacy' = [legacy EXCEPT !.url = u]
    /\ UNCHANGED pageVars

\* onChange of the question input
LegacySetQuestion(q) ==
    /\ LegacyQuestionInputEnabled
    /\ q # legacy.question
    /\ legacy' = [legacy EXCEPT !.question = q]
    /\ UNCHANGED pageVars

\* onClick of a video of the sidebar
LegacySelectVideo(i) ==
    /\ i \in 1..Len(legacy.videos)
    /\ legacy' = [legacy EXCEPT !.activeVideoId = legacy.videos[i].videoId,
                                !.currentMessages = legacy.videos[i].messages]
    /\ UNCHANGED pageVars

\* onClick of Ingest, up to the await of the ingest request
handleProcess ==
    /\ LegacyIngestEnabled
    /\ Len(legacy.videos) < MaxSessions
    /\ legacy' = IF legacy.url = << >>
                 THEN legacy
                 ELSE [legacy EXCEPT !.loading = TRUE,
                                     !.status = "Processing video...",
                                     !.processCalls = Append(@, [url |-> legacy.url])]
    /\ UNCHANGED pageVars

\* the ingest request resolves with a 2xx response
ProcessResolveOk(i, videoId) ==
    /\ i \in 1..Len(legacy.processCalls)
    /\ legacy' = [legacy EXCEPT
            !.videos = Append(@, [videoId |-> videoId,
                                  title |-> LegacyTitle(legacy.processCalls[i].url),
                                  messages |-> << >>]),
            !.activeVideoId = videoId,
            !.currentMessages = << >>,
            !.status = "Ingested successfully!",
            !.url = << >>,
            !.loading = FALSE,
            !.processCalls = RemoveAt(@, i)]
    /\ UNCHANGED pageVars

\* the ingest request fails or answers with a non-2xx status
ProcessResolveFail(i) ==
    /\ i \in 1..Len(legacy.processCalls)
    /\ legacy' = [legacy EXCEPT !.status = "Error",
                                !.loading = FALSE,
                                !.processCalls = RemoveAt(@, i)]
    /\ UNCHANGED pageVars

\* onClick of Send or Enter in the question input, up to the await of the query
LegacyHandleSend ==
    /\ LegacyQuestionInputEnabled
    /\ LegacyRoomToSend
    /\ legacy' =
        IF Trim(legacy.question) = << >> \/ ~Truthy(legacy.activeVideoId)
        THEN legacy
        ELSE LET userMessage == [role |-> "user", content |-> legacy.question]
             IN [legacy EXCEPT
                    !.currentMessages = Append(@, userMessage),
                    !.question = << >>,
                    !.loading = TRUE,
                    !.sendCalls = Append(@, [userMessage |-> userMessage,
                                             activeVideoId |-> legacy.activeVideoId])]
    /\ UNCHANGED pageVars

\* the query resolves with a 2xx response
LegacySendResolveOk(i, response) ==
    /\ i \in 1..Len(legacy.sendCalls)
    /\ LET call == legacy.sendCalls[i]
           aiMessage == [role |-> "assistant", content |-> response]
       IN legacy' = [legacy EXCEPT
                !.currentMessages = Append(@, aiMessage),
                !.videos = LegacyStoreExchange(@, call.activeVideoId,
                                               call.userMessage, aiMessage),
                !.loading = FALSE,
                !.sendCalls = RemoveAt(@, i)]
    /\ UNCHANGED pageVars

\* the query fails or answers with a non-2xx status
LegacySendResolveFail(i) ==
    /\ i \in 1..Len(legacy.sendCalls)
    /\ legacy' = [legacy EXCEPT
            !.currentMessages =
                Append(@, [role |-> "assistant", content |-> LegacyErrorContent]),
            !.loading = FALSE,
            !.sendCalls = RemoveAt(@, i)]
    /\ UNCHANGED pageVars

LegacyNext ==
    \/ \E u \in LegacyUrls : LegacySetUrl(u)
    \/ \E q \in LegacyQuestions : LegacySetQuestion(q)
    \/ \E i \in 1..Len(legacy.videos) : LegacySelectVideo(i)
    \/ handleProcess
    \/ \E i \in 1..Len(legacy.processCalls), v \in VideoIds : ProcessResolveOk(i, v)
    \/ \E i \in 1..Len(legacy.processCalls) : ProcessResolveFail(i)
    \/ LegacyHandleSend
    \/ \E i \in 1..Len(legacy.sendCalls), r \in Responses : LegacySendResolveOk(i, r)
    \/ \E i \in 1..Len(legacy.sendCalls) : LegacySendResolveFail(i)

SpecLegacy == Init /\ [][LegacyNext]_vars

(* ============================== claims ================================= *)
\* a step in which a pending query resolves, with success or with failure
ReplyStep == lastOp'.op \in {"sendOk", "sendFail"} /\ Len(sendCalls') < Len(sendCalls)

\* the key the resolving query captured at submission
CapturedKey == sendCalls[1].activeChat.uniqueId

IsAssistant(m) == m.role = "assistant"

LastMessage(s) == s.messages[Len(s.messages)]

\* C1: when a pending query resolves, the assistant message is appended only
\* to sessions whose uniqueId is the one captured at submission; every session
\* with another key is left exactly as it was, whichever session is active.
C1_ReplyOnlyToCaptured ==
    [][ReplyStep =>
        /\ Len(sessions') = Len(sessions)
        /\ \A j \in 1..Len(sessions) :
            IF sessions[j].uniqueId = CapturedKey
            THEN /\ Len(sessions'[j].messages) = Len(sessions[j].messages) + 1
                 /\ SubSeq(sessions'[j].messages, 1, Len(sessions[j].messages))
                        = sessions[j].messages
                 /\ IsAssistant(LastMessage(sessions'[j]))
                 /\ sessions'[j].uniqueId = CapturedKey
            ELSE sessions'[j] = sessions[j]]_vars

\* a reply has just landed in its live session while another session is active
C1_Witness ==
    /\ lastOp.op \in {"sendOk", "sendFail"}
    /\ activeSessionId \in Keys(sessions)
    /\ activeSessionId # lastOp.key
    /\ \E j \in 1..Len(sessions) :
        /\ sessions[j].uniqueId = lastOp.key
        /\ sessions[j].messages # << >>
        /\ IsAssistant(LastMessage(sessions[j]))

\* C2: when a query resolves after its session was deleted and another
\* session has become active, the active session's history is unchanged and
\* no session with the captured key exists afterwards.
C2_DeletedNotResurrected ==
    [][(/\ ReplyStep
        /\ CapturedKey \notin Keys(sessions)
        /\ activeSessionId \in Keys(sessions)) =>
        /\ CapturedKey \notin Keys(sessions')
        /\ Len(sessions') = Len(sessions)
        /\ \A j \in 1..Len(sessions) :
            sessions[j].uniqueId = activeSessionId =>
                /\ sessions'[j].uniqueId = activeSessionId
                /\ sessions'[j].messages = sessions[j].messages]_vars

\* a reply has just resolved for a deleted session, after the listing has
\* resolved, while another live session is active
C2_Witness ==
    /\ lastOp.op \in {"sendOk", "sendFail"}
    /\ lastOp.key \notin Keys(sessions)
    /\ activeSessionId \in Keys(sessions)
    /\ activeSessionId # lastOp.key
    /\ fetchVideos = "done"

\* a step in which handleSend submits a query
SendStep == lastOp'.op = "send" /\ Len(sendCalls') = Len(sendCalls) + 1

\* a step that is neither a delete nor a resolution of the listing
NoDeleteNoHydration ==
    lastOp'.op \notin {"delete", "deleteActive", "fetchArray", "fetchNotOk",
                       "fetchNotArray", "fetchThrow"}

\* C3: submitting the non-blank question q on the active session with history
\* h leaves that history at h, {user, q}; the history stays so while the query
\* is pending and nothing is deleted or hydrated; a successful resolution with
\* response r then leaves it at h, {user, q}, {assistant, r}.
C3_ExchangeOrder ==
    [][/\ SendStep =>
            /\ Trim(questionInput) # << >>
            /\ HasActiveChat
            /\ Len(sessions') = Len(sessions)
            /\ sessions'[activeChatIndex].messages =
                    sessions[activeChatIndex].messages
                        \o <<[role |-> "user", content |-> questionInput]>>
            /\ sendCalls'[Len(sendCalls')].currentQ = questionInput
            /\ sendCalls'[Len(sendCalls')].activeChat.uniqueId = activeSessionId
       /\ (sendCalls # << >> /\ sendCalls' = sendCalls /\ NoDeleteNoHydration) =>
            /\ Len(sessions') = Len(sessions)
            /\ \A j \in 1..Len(sessions) :
                sessions[j].uniqueId = CapturedKey =>
                    sessions'[j].messages = sessions[j].messages
       /\ (ReplyStep /\ lastOp'.op = "sendOk") =>
            /\ Len(sessions') = Len(sessions)
            /\ \E r \in Responses :
                \A j \in 1..Len(sessions) :
                    sessions[j].uniqueId = CapturedKey =>
                        sessions'[j].messages =
                            sessions[j].messages
                                \o <<[role |-> "assistant", content |-> r]>>]_vars

\* a second exchange has just completed on a session: its history is a first
\* exchange followed by the question and the answer, in that order
C3_Witness ==
    /\ lastOp.op = "sendOk"
    /\ \E j \in 1..Len(sessions) :
        /\ sessions[j].uniqueId = lastOp.key
        /\ Len(sessions[j].messages) = 4
        /\ sessions[j].messages[1].role = "user"
        /\ sessions[j].messages[2].role = "assistant"
        /\ sessions[j].messages[3] = [role |-> "user", content |-> <<" ", "q">>]
        /\ sessions[j].messages[4].role = "assistant"
        /\ sessions[j].messages[4].content \in Responses

\* number of messages of the given role among the first n of a history
RECURSIVE CountRole(_, _, _)
CountRole(msgs, role, n) ==
    IF n = 0 THEN 0
    ELSE CountRole(msgs, role, n - 1) + (IF msgs[n].role = role THEN 1 ELSE 0)

\* C4: in every reachable state and every session, every prefix of the
\* history holds at most as many assistant messages as user messages: each
\* assistant reply comes after the user message of its exchange.
C4_UserBeforeAssistant ==
    \A j \in 1..Len(sessions) :
        \A n \in 0..Len(sessions[j].messages) :
            CountRole(sessions[j].messages, "assistant", n)
                <= CountRole(sessions[j].messages, "user", n)

\* C5: the uniqueId values of the sessions in the collection are pairwise
\* distinct after any sequence of hydration, ingest and delete.
C5_KeysDistinct ==
    \A i, j \in 1..Len(sessions) :
        i # j => sessions[i].uniqueId # sessions[j].uniqueId

\* C6: the active pointer is null or the uniqueId of exactly one session of
\* the collection.
C6_ActivePointsAtOneSession ==
    \/ activeSessionId = Null
    \/ Cardinality({j \in 1..Len(sessions) : sessions[j].uniqueId = activeSessionId}) = 1

\* a step in which handleDelete runs; lastOp'.key is the key it deletes
DeleteStep == lastOp'.op \in {"delete", "deleteActive"}

\* C7: deleting the active session leaves the active pointer null and no
\* session of that key in the collection; deleting a session that is not
\* active leaves the active pointer unchanged.
C7_DeleteClearsActive ==
    [][DeleteStep =>
        /\ lastOp'.key \notin Keys(sessions')
        /\ activeSessionId = lastOp'.key => activeSessionId' = Null
        /\ activeSessionId # lastOp'.key => activeSessionId' = activeSessionId]_vars

\* the active session has just been deleted while other sessions remain
C7_Witness ==
    /\ lastOp.op = "deleteActive"
    /\ activeSessionId = Null
    /\ lastOp.key \notin Keys(sessions)
    /\ sessions # << >>

\* the messages a resolution may append
Replies == {[role |-> "assistant", content |-> c] : c \in Responses \cup {ErrorContent}}

\* C8: appending to a key that no session of the collection has changes
\* nothing: membership, order, every history and the active pointer are as
\* before, and appending again leaves the collection unchanged again.
C8_AppendToMissingKeyIsNoOp ==
    [][(ReplyStep /\ CapturedKey \notin Keys(sessions)) =>
        /\ sessions' = sessions
        /\ activeSessionId' = activeSessionId
        /\ \A m \in Replies :
            /\ addMessageToSession(sessions', CapturedKey, m) = sessions'
            /\ addMessageToSession(addMessageToSession(sessions', CapturedKey, m),
                                   CapturedKey, m) = sessions']_vars

\* a reply has just resolved for a key that is gone, while sessions with
\* messages of their own remain
C8_Witness ==
    /\ lastOp.op \in {"sendOk", "sendFail"}
    /\ lastOp.key \notin Keys(sessions)
    /\ \E j \in 1..Len(sessions) : sessions[j].messages # << >>

\* the history the page shows for a key: that of the first session with it
HistoryOf(ss, key) == ss[FindIndex(ss, key)].messages

IsPrefix(s, t) == Len(s) <= Len(t) /\ SubSeq(t, 1, Len(s)) = s

\* C9: for every key live before and after a step, the history after the
\* step extends the history before it by at most one message.
C9_HistoryAppendOnly ==
    [][\A k \in Keys(sessions) \cap Keys(sessions') :
        /\ IsPrefix(HistoryOf(sessions, k), HistoryOf(sessions', k))
        /\ Len(HistoryOf(sessions', k)) <= Len(HistoryOf(sessions, k)) + 1]_vars

\* C10: when the listing resolves with an array, the collection holds one
\* session per record, in the order of the records, with id = uniqueId = the
\* record's url, title = the record's description, and an empty history.
C10_HydrationMapsListing ==
    [][\A data \in Listings :
        FetchVideosArray(data) =>
            /\ Len(sessions') = Len(data)
            /\ \A i \in 1..Len(data) :
                /\ sessions'[i].id = data[i].url
                /\ sessions'[i].uniqueId = data[i].url
                /\ sessions'[i].title = data[i].description
                /\ sessions'[i].messages = << >>]_vars

\* the listing has just resolved with two records of different urls
C10_Witness ==
    /\ lastOp.op = "fetchArray"
    /\ Len(sessions) = 2
    /\ sessions[1].uniqueId = "u2"
    /\ sessions[2].uniqueId = "u1"
    /\ \A i \in 1..2 :
        /\ sessions[i].id = sessions[i].uniqueId
        /\ sessions[i].title \in ListDescriptions
        /\ sessions[i].messages = << >>

\* C11: after the listing request has failed in any of its three ways
\* (transport failure, non-success status, payload that is not an array) the
\* collection is empty.
C11_HydrationFailureEmpties ==
    lastOp.op \in {"fetchThrow", "fetchNotOk", "fetchNotArray"} => sessions = << >>

\* C12: right after an ingest has resolved successfully with identifier v,
\* the first session has id = uniqueId = v and no messages, the active
\* pointer is v, and loading is false.
C12_IngestSuccess ==
    lastOp.op = "ingestOk" =>
        /\ sessions # << >>
        /\ sessions[1].id = lastOp.key
        /\ sessions[1].uniqueId = lastOp.key
        /\ sessions[1].messages = << >>
        /\ activeSessionId = lastOp.key
        /\ ~loading

\* an ingest has just resolved in front of a session of another key
C12_Witness ==
    /\ lastOp.op = "ingestOk"
    /\ Len(sessions) = 2
    /\ sessions[1].uniqueId = lastOp.key
    /\ sessions[2].uniqueId # lastOp.key
    /\ activeSessionId = lastOp.key

\* C13: when an ingest request fails, the collection, the active pointer and
\* the url and title inputs are what they were just before, and loading is
\* false afterwards.
C13_IngestFailureKeepsState ==
    [][lastOp'.op = "ingestFail" =>
        /\ sessions' = sessions
        /\ activeSessionId' = activeSessionId
        /\ urlInput' = urlInput
        /\ titleInput' = titleInput
        /\ ~loading']_vars

\* an ingest has just failed with a url and a title typed and a session live
C13_Witness ==
    /\ lastOp.op = "ingestFail"
    /\ urlInput # ""
    /\ titleInput # ""
    /\ sessions # << >>
    /\ ~loading

\* C14: when a query fails while its captured session is live, exactly one
\* assistant message with the failure text is appended to the sessions of the
\* captured key, no other session changes, and loading is false afterwards.
C14_QueryFailureInline ==
    [][(lastOp'.op = "sendFail" /\ CapturedKey \in Keys(sessions)) =>
        /\ Len(sessions') = Len(sessions)
        /\ \A j \in 1..Len(sessions) :
            IF sessions[j].uniqueId = CapturedKey
            THEN sessions'[j] =
                    [sessions[j] EXCEPT !.messages =
                        Append(@, [role |-> "assistant", content |-> ErrorContent])]
            ELSE sessions'[j] = sessions[j]
        /\ ~loading']_vars

\* a query has just failed on a live session next to another session
C14_Witness ==
    /\ lastOp.op = "sendFail"
    /\ ~loading
    /\ Len(sessions) = 2
    /\ \E j \in 1..2 :
        /\ sessions[j].uniqueId = lastOp.key
        /\ sessions[3 - j].uniqueId # lastOp.key
        /\ LastMessage(sessions[j]) = [role |-> "assistant", content |-> ErrorContent]

\* C15: at most one ingest request is in flight, and while one is in flight
\* the Start Chat button accepts no second submission.
C15_OneIngestInFlight ==
    /\ Len(ingestCalls) <= 1
    /\ ingestCalls # << >> => ~StartChatEnabled

\* an ingest is in flight while the setup card shows a typed url and the
\* collection has room: only the busy flag stands in the way of a second one
C15_Witness ==
    /\ Len(ingestCalls) = 1
    /\ SetupViewShown
    /\ Truthy(urlInput)
    /\ urlInput = ingestCalls[1].url
    /\ Len(sessions) < MaxSessions

\* a text of whitespace only
IsBlank(q) == \A i \in 1..Len(q) : q[i] = " "

\* a step that adds a user message to some history
UserMessageAdded ==
    /\ Len(sessions') = Len(sessions)
    /\ \E j \in 1..Len(sessions) :
        /\ sessions'[j].uniqueId = sessions[j].uniqueId
        /\ Len(sessions'[j].messages) = Len(sessions[j].messages) + 1
        /\ SubSeq(sessions'[j].messages, 1, Len(sessions[j].messages))
                = sessions[j].messages
        /\ LastMessage(sessions'[j]).role = "user"

\* C16: a submission with a question that is blank after trimming, or with no
\* live session under the active pointer, issues no request, appends no
\* message and does not set loading.
C16_BlankSendIsNoOp ==
    [][/\ (Len(sendCalls') > Len(sendCalls) \/ UserMessageAdded) =>
            (~IsBlank(questionInput) /\ activeSessionId \in Keys(sessions))
       /\ lastOp'.op = "sendRejected" =>
            /\ IsBlank(questionInput) \/ activeSessionId \notin Keys(sessions)
            /\ UNCHANGED <<sessions, loading, sendCalls, ingestCalls, questionInput,
                           activeSessionId>>]_vars

\* a whitespace-only question has just been submitted and rejected
C16_Witness ==
    /\ lastOp.op = "sendRejected"
    /\ questionInput = <<" ">>
    /\ sendCalls = << >>
    /\ ~loading
    /\ activeSessionId \in Keys(sessions)

\* C17: a successful ingest resolution changes the collection only by adding
\* the new session: the sessions live at the moment of resolution are all
\* still there, unchanged and in the same order, and nothing else appears.
C17_IngestOnlyAdds ==
    [][lastOp'.op = "ingestOk" =>
        /\ Len(sessions') = Len(sessions) + 1
        /\ \E p \in 1..Len(sessions') :
            /\ sessions'[p].uniqueId = lastOp'.key
            /\ RemoveAt(sessions', p) = sessions]_vars

\* the number of ingest and query requests in flight
InFlight == Len(ingestCalls) + Len(sendCalls)

\* C18: at most one ingest-or-query request is in flight, and loading is true
\* exactly when one is.
C18_BusyIffInFlight ==
    /\ InFlight <= 1
    /\ loading <=> InFlight = 1

\* a query is in flight while the setup card shows a typed url: only the
\* busy flag keeps a second request from being issued
C18_Witness ==
    /\ loading
    /\ Len(sendCalls) = 1
    /\ SetupViewShown
    /\ Truthy(urlInput)
    /\ Len(sessions) < MaxSessions

\* the history ends with the question of the pending query
EndsWithQuestion(msgs) ==
    /\ msgs # << >>
    /\ msgs[Len(msgs)] = [role |-> "user", content |-> sendCalls[1].currentQ]

\* C19: when every request settles, every submitted query leads to a state
\* with no query pending and loading false, whatever is deleted or selected
\* in the meantime; and a session that still ends with the query's user
\* message when the query settles has an assistant message right after it.
C19_QuerySettles ==
    /\ (sendCalls # << >>) ~> (sendCalls = << >> /\ ~loading)
    /\ [][ReplyStep =>
            \A j \in 1..Len(sessions) :
                (sessions[j].uniqueId = CapturedKey
                    /\ EndsWithQuestion(sessions[j].messages)) =>
                    /\ j <= Len(sessions')
                    /\ Len(sessions'[j].messages) = Len(sessions[j].messages) + 1
                    /\ SubSeq(sessions'[j].messages, 1, Len(sessions[j].messages))
                            = sessions[j].messages
                    /\ IsAssistant(LastMessage(sessions'[j]))]_vars

\* a query has settled and loading is false although its session was
\* deleted while it was active
C19_Witness ==
    /\ lastOp.op \in {"sendOk", "sendFail"}
    /\ sendCalls = << >>
    /\ ~loading
    /\ lastOp.key \notin Keys(sessions)
    /\ activeSessionId = Null

\* C20: in the older page, whenever no query is in flight and a video is
\* active, the displayed list currentMessages equals the messages stored in
\* videos for the active video.
C20_DisplayedEqualsStored ==
    (legacy.sendCalls = << >> /\ Truthy(legacy.activeVideoId)
        /\ LegacyFindIndex(legacy.videos, legacy.activeVideoId) # 0) =>
        legacy.currentMessages =
            legacy.videos[LegacyFindIndex(legacy.videos, legacy.activeVideoId)].messages
====
